---- MODULE Spec2Model ----
(***************************************************************************)
(* sol-hunter: the two API variants of the repository, src/app.py and      *)
(* src/loop.py.  Both are FastAPI applications over the same Redis store   *)
(* (the same REDIS_URL): key "card:<mint>" holds a JSON card, the sorted   *)
(* set "candidates" ranks mints by score, and the keys "scan_seq" and      *)
(* "last_update_ms" are the freshness markers.                             *)
(*                                                                         *)
(* Definitions prefixed app_ model src/app.py, definitions prefixed loop_  *)
(* model src/loop.py; the functions themselves have the same names in the  *)
(* two files (scan, health, evaluate).                                     *)
(*                                                                         *)
(* A mint is a record [pre, n] standing for the string pre \o digits(n);   *)
(* all n used have the same number of digits, so the lexicographic order   *)
(* of the strings is the order of (pre, n).                                *)
(***************************************************************************)
EXTENDS Integers, Sequences, FiniteSets, TLC

VARIABLES
    cards,        \* Redis keys "card:<mint>": mint -> raw string value
    candidates,   \* Redis sorted set "candidates": mint -> score
    scan_seq,     \* Redis key "scan_seq": raw string value or Nil
    last_update_ms, \* Redis key "last_update_ms": raw string value or Nil
    now,          \* wall clock, int(time.time())
    feeder_pc,    \* position of the feeder coroutine of app.py
    feeder_s,     \* feeder local s
    feeder_mint,  \* feeder local mint
    cycles,       \* number of feeder iterations started
    first_cycle,  \* the store as the first completed feeder iteration left it
    scan_pc,      \* position of the /scan request in flight
    scan_variant, \* "app" or "loop": which file's scan serves it
    scan_limit,   \* its limit parameter
    scan_z,       \* the sorted set as the ZREVRANGE of the request read it
    scan_mints,   \* its local mints (the ZREVRANGE reply)
    scan_i,       \* index of the next element of mints in the for loop
    scan_items,   \* its local out / items
    scan_reads,   \* what each iteration of the loop read, in order
    health_pc,    \* position of the /health request in flight
    health_resp,  \* its response
    eval_req,     \* the /evaluate request: mint and the upstream outcome
    eval_resp     \* the /evaluate response

store_vars == <<cards, candidates, scan_seq, last_update_ms>>
feeder_vars == <<now, feeder_pc, feeder_s, feeder_mint, cycles, first_cycle>>
scan_vars == <<scan_pc, scan_variant, scan_limit, scan_z, scan_mints, scan_i,
               scan_items, scan_reads>>
health_vars == <<health_pc, health_resp>>
eval_vars == <<eval_req, eval_resp>>
vars == <<store_vars, feeder_vars, scan_vars, health_vars, eval_vars>>

----------------------------------------------------------------------------
(* Bounds *)

MaxCycles == 2        \* feeder iterations explored
MaxLimit == 2         \* /scan limits explored: -MaxLimit .. MaxLimit
NumLiveMints == 1     \* mints the live feed loop writes
MaxPairs == 2         \* pair records in one upstream response
MaxDraws == 3         \* distinct outcomes of random.randint explored
MaxSeq == 1           \* completed cycles the live feed loop stamps

----------------------------------------------------------------------------
(* Values *)

Nil == [kind |-> "nil"]                     \* Python None / absent Redis key

T0 == 1700000000                            \* a value of int(time.time())
SleepSecs == 60
ScoreLo == 70
ScoreHi == 95

DummyMint(t) == [pre |-> "DUMMY", n |-> t]  \* f"DUMMY{int(time.time())}"
LiveMint(k) == [pre |-> "So", n |-> k]
LiveMints == {LiveMint(k) : k \in 1..NumLiveMints}

\* str.startswith("DUMMY")
StartsWithDummy(m) == m.pre = "DUMMY"

\* Lexicographic order of the strings the mints stand for ("D" < "S").
PreLt(a, b) == a = "DUMMY" /\ b = "So"
MintLt(a, b) == PreLt(a.pre, b.pre) \/ (a.pre = b.pre /\ a.n < b.n)

\* json.dumps of a dict gives a string that json.loads parses back to it;
\* any other string of the store is text that json.loads rejects, and the
\* empty string is the one falsy string.
JsonDumps(doc) == [kind |-> "json", doc |-> doc]
NotJson == [kind |-> "text", text |-> "not json"]
EmptyStr == [kind |-> "text", text |-> ""]
IsFalsy(raw) == raw = Nil \/ raw = EmptyStr
JsonParses(raw) == raw.kind = "json"
JsonLoads(raw) == raw.doc

----------------------------------------------------------------------------
(* Redis commands *)

EmptyMap == [x \in {} |-> Nil]             \* no key, no member
RedisGet(kv, k) == IF k \in DOMAIN kv THEN kv[k] ELSE Nil
RedisSet(kv, k, v) == [x \in DOMAIN kv \cup {k} |-> IF x = k THEN v ELSE kv[x]]
RedisZadd(z, m, s) == [x \in DOMAIN z \cup {m} |-> IF x = m THEN s ELSE z[x]]

\* Sorted-set order: by score, ties by member (lexicographic).
ZLt(z, a, b) == z[a] < z[b] \/ (z[a] = z[b] /\ MintLt(a, b))
ZMax(z, S) == CHOOSE a \in S : \A b \in S \ {a} : ZLt(z, b, a)

RECURSIVE ZDescending(_, _)
ZDescending(z, S) ==
    IF S = {} THEN <<>>
    ELSE LET a == ZMax(z, S) IN <<a>> \o ZDescending(z, S \ {a})

\* ZRANGE in place of ZREVRANGE: the same range of the ascending order.
RECURSIVE ZAscending(_, _)
ZAscending(z, S) ==
    IF S = {} THEN <<>>
    ELSE LET a == ZMax(z, S) IN ZAscending(z, S \ {a}) \o <<a>>

ZRange(z, start, stop) ==
    LET all == ZAscending(z, DOMAIN z)
        n == Len(all)
        s0 == IF start < 0 THEN n + start ELSE start
        e0 == IF stop < 0 THEN n + stop ELSE stop
        s == IF s0 < 0 THEN 0 ELSE s0
        e == IF e0 >= n THEN n - 1 ELSE e0
    IN IF s > e \/ s >= n THEN <<>> ELSE SubSeq(all, s + 1, e + 1)

\* ZREVRANGE key start stop: negative indexes count from the end, stop is
\* clipped to the last index, an empty range gives the empty list.
ZRevRange(z, start, stop) ==
    LET all == ZDescending(z, DOMAIN z)
        n == Len(all)
        s0 == IF start < 0 THEN n + start ELSE start
        e0 == IF stop < 0 THEN n + stop ELSE stop
        s == IF s0 < 0 THEN 0 ELSE s0
        e == IF e0 >= n THEN n - 1 ELSE e0
    IN IF s > e \/ s >= n THEN <<>> ELSE SubSeq(all, s + 1, e + 1)

----------------------------------------------------------------------------
(* app.py: feeder *)

\* random.randint(70, 95): the draws explored are the MaxDraws - 1 lowest
\* values of the range and its highest value.
FeederScores == {s \in ScoreLo..ScoreHi : s < ScoreLo + MaxDraws - 1 \/ s = ScoreHi}

FeederCard(mint, s) ==
    [token |-> [symbol |-> "FAKE", mint |-> mint, decimals |-> 9],
     why_now |-> <<"buyers up", "lp locked", "route stable">>,
     score |-> [total |-> s],
     plan |-> [position_pct |-> "0.0075", max_slippage_pct |-> "1.2",
               expected_impact_pct |-> "1.3", router |-> "Jupiter"],
     exits |-> [tp_levels_pct |-> <<50, 100, 200>>,
                tp_allocs_pct |-> <<25, 50, 25>>,
                invalidation_drop_pct |-> 25],
     ops |-> [pre_trade_checks |-> <<"dust_ok">>, post_trade |-> <<"journal">>]]

\* The two writes in the other order: the rank is written first.
feeder_rank_first(c, z, mint, s) ==
    [cards |-> c, candidates |-> RedisZadd(z, mint, s)]

\* The first store write of an iteration: r.set(f"card:{mint}", ...)
feeder_first_write(c, z, mint, s) ==
    [cards |-> RedisSet(c, mint, JsonDumps(FeederCard(mint, s))), candidates |-> z]

\* The second store write of an iteration: r.zadd("candidates", {mint: s})
feeder_second_write(c, z, mint, s) ==
    [cards |-> c, candidates |-> RedisZadd(z, mint, s)]

\* Lines 20-44: draw s, read the clock, build the card, r.set.
FeederSetCard ==
    /\ feeder_pc = "top"
    /\ cycles < MaxCycles
    /\ \E s \in FeederScores :
         LET mint == DummyMint(now)
             w == feeder_first_write(cards, candidates, mint, s)
         IN /\ feeder_s' = s
            /\ feeder_mint' = mint
            /\ cards' = w.cards
            /\ candidates' = w.candidates
    /\ cycles' = cycles + 1
    /\ feeder_pc' = "zadd"
    /\ UNCHANGED <<scan_seq, last_update_ms, now, first_cycle, scan_vars,
                   health_vars, eval_vars>>

\* Line 45, and the start of the await of line 46.
FeederZadd ==
    /\ feeder_pc = "zadd"
    /\ LET w == feeder_second_write(cards, candidates, feeder_mint, feeder_s)
       IN /\ cards' = w.cards
          /\ candidates' = w.candidates
          /\ first_cycle' = IF cycles = 1
                            THEN [cards |-> w.cards, candidates |-> w.candidates]
                            ELSE first_cycle
    /\ feeder_pc' = "sleep"
    /\ UNCHANGED <<scan_seq, last_update_ms, now, feeder_s, feeder_mint, cycles,
                   scan_vars, health_vars, eval_vars>>

\* Line 46: asyncio.sleep(60) returns once at least 60 seconds have passed.
FeederSleep ==
    /\ feeder_pc = "sleep"
    /\ \E late \in 0..1 : now' = now + SleepSecs + late
    /\ feeder_pc' = "top"
    /\ UNCHANGED <<store_vars, feeder_s, feeder_mint, cycles, first_cycle,
                   scan_vars, health_vars, eval_vars>>

----------------------------------------------------------------------------
(* /scan: src/app.py lines 65-79, src/loop.py lines 161-186.  The requests  *)
(* only read the store and share nothing else, so one request (a /scan or  *)
(* a /health) is followed at a time, against the writers of the store.     *)

Variants == {"app", "loop"}
Limits == (0 - MaxLimit)..MaxLimit

\* One iteration of the for loop of app.py's scan, r.get having returned raw.
app_scan_iter(out, m, raw) ==
    IF IsFalsy(raw) THEN out
    ELSE IF ~JsonParses(raw) THEN out
    ELSE Append(out, JsonLoads(raw))

\* One iteration of the for loop of loop.py's scan; raw is read only when
\* the mint does not start with "DUMMY".
loop_scan_iter(items, m, raw) ==
    IF StartsWithDummy(m) THEN items
    ELSE IF IsFalsy(raw) THEN items
    ELSE IF ~JsonParses(raw) THEN items
    ELSE Append(items, JsonLoads(raw))

\* mints = r.zrevrange("candidates", 0, limit - 1); out = []
ScanStart ==
    /\ scan_pc = "idle"
    /\ health_pc = "idle"
    /\ \E v \in Variants, limit \in Limits :
         /\ scan_variant' = v
         /\ scan_limit' = limit
         /\ scan_mints' = ZRevRange(candidates, 0, limit - 1)
    /\ scan_z' = candidates
    /\ scan_i' = 1
    /\ scan_items' = <<>>
    /\ scan_reads' = <<>>
    /\ scan_pc' = "loop"
    /\ UNCHANGED <<store_vars, feeder_vars, health_vars, eval_vars>>

\* One iteration of "for m in mints", with its r.get(f"card:{m}").
ScanIter ==
    /\ scan_pc = "loop"
    /\ scan_i <= Len(scan_mints)
    /\ LET m == scan_mints[scan_i]
           reads == scan_variant = "app" \/ ~StartsWithDummy(m)
           raw == IF reads THEN RedisGet(cards, m) ELSE Nil
       IN /\ scan_items' = IF scan_variant = "app"
                           THEN app_scan_iter(scan_items, m, raw)
                           ELSE loop_scan_iter(scan_items, m, raw)
          /\ scan_reads' = Append(scan_reads, [mint |-> m, read |-> reads, raw |-> raw])
    /\ scan_i' = scan_i + 1
    /\ UNCHANGED <<store_vars, feeder_vars, scan_pc, scan_variant, scan_limit,
                   scan_z, scan_mints, health_vars, eval_vars>>

\* The loop is over: the handler is at "return out" / "return items".
ScanLoopEnd ==
    /\ scan_pc = "loop"
    /\ scan_i > Len(scan_mints)
    /\ scan_pc' = "return"
    /\ UNCHANGED <<store_vars, feeder_vars, scan_variant, scan_limit, scan_z,
                   scan_mints, scan_i, scan_items, scan_reads, health_vars, eval_vars>>

\* The response (HTTP 200, body scan_items) is sent; the request is over.
ScanReturn ==
    /\ scan_pc = "return"
    /\ scan_pc' = "idle"
    /\ scan_variant' = "none"
    /\ scan_limit' = 0
    /\ scan_z' = EmptyMap
    /\ scan_mints' = <<>>
    /\ scan_i' = 1
    /\ scan_items' = <<>>
    /\ scan_reads' = <<>>
    /\ UNCHANGED <<store_vars, feeder_vars, health_vars, eval_vars>>

----------------------------------------------------------------------------
(* /health: src/app.py lines 51-58, src/loop.py lines 143-158 *)

\* A Redis string holding the decimal digits of k.
NumStr(k) == [kind |-> "int", n |-> k]
IntParses(raw) == raw.kind = "int"
PyInt(raw) == raw.n

app_health ==
    [status |-> 200,
     body |-> [env |-> [HELIUS_API_KEY |-> TRUE, UPSTASH_REDIS_URL |-> TRUE]]]

\* helius: whether the environment variable HELIUS_API_KEY is set and not
\* empty.  REDIS_URL always has its non-empty default.
loop_health(seq, last, helius) ==
    IF (~IsFalsy(seq) /\ ~IntParses(seq)) \/ (~IsFalsy(last) /\ ~IntParses(last))
    THEN [status |-> 500, body |-> [detail |-> "Internal Server Error"]]
    ELSE [status |-> 200,
          body |-> [env |-> [HELIUS_API_KEY |-> helius, UPSTASH_REDIS_URL |-> TRUE],
                    scan_seq |-> IF ~IsFalsy(seq) THEN PyInt(seq) ELSE 0,
                    last_update_ms |-> IF ~IsFalsy(last) THEN PyInt(last) ELSE 0]]

NoHealth == [variant |-> "none"]

Health ==
    /\ health_pc = "idle"
    /\ scan_pc = "idle"
    /\ \E v \in Variants, helius \in BOOLEAN :
         LET r == IF v = "app" THEN app_health
                  ELSE loop_health(scan_seq, last_update_ms, helius)
         IN health_resp' = [variant |-> v,
                            never_run |-> scan_seq = Nil /\ last_update_ms = Nil,
                            status |-> r.status, body |-> r.body]
    /\ health_pc' = "return"
    /\ UNCHANGED <<store_vars, feeder_vars, scan_vars, eval_vars>>

HealthReturn ==
    /\ health_pc = "return"
    /\ health_pc' = "idle"
    /\ health_resp' = NoHealth
    /\ UNCHANGED <<store_vars, feeder_vars, scan_vars, eval_vars>>

----------------------------------------------------------------------------
(* The other writers of the shared store: the live feed loop (Candidate    *)
(* Store Writer), and whatever makes a card vanish or leaves a malformed   *)
(* one.  Each writes one key at a time.                                    *)

LiveScores == {1, 100}                      \* the ends of the score range
StoreMints == LiveMints \cup {DummyMint(T0)}

LiveCard(m) ==
    [token |-> [symbol |-> "LIVE", mint |-> m, decimals |-> 9],
     score |-> [total |-> 100]]

StoredCard(m) == IF StartsWithDummy(m) THEN FeederCard(m, ScoreLo) ELSE LiveCard(m)

\* (a) the card of an asset is stored under its key, well-formed or not.
LiveSetCard ==
    /\ \E m \in StoreMints, wellformed \in BOOLEAN :
         LET raw == IF wellformed THEN JsonDumps(StoredCard(m)) ELSE NotJson IN
         /\ RedisGet(cards, m) # raw
         /\ cards' = RedisSet(cards, m, raw)
    /\ UNCHANGED <<candidates, scan_seq, last_update_ms, feeder_vars, scan_vars,
                   health_vars, eval_vars>>

\* (b) the asset's score in the ranking set is overwritten.  A /scan reads
\* the ranking set once, when it starts, so a rank written while the request
\* is in flight is seen exactly as one written right after it: the write is
\* taken between requests.
LiveZadd ==
    /\ scan_pc = "idle"
    /\ \E m \in StoreMints, s \in LiveScores :
         /\ (IF m \in DOMAIN candidates THEN candidates[m] # s ELSE TRUE)
         /\ candidates' = RedisZadd(candidates, m, s)
    /\ UNCHANGED <<cards, scan_seq, last_update_ms, feeder_vars, scan_vars,
                   health_vars, eval_vars>>

\* A card vanishes (expiry, eviction, a manual delete).
CardVanish ==
    /\ \E m \in DOMAIN cards : cards' = [x \in DOMAIN cards \ {m} |-> cards[x]]
    /\ UNCHANGED <<candidates, scan_seq, last_update_ms, feeder_vars, scan_vars,
                   health_vars, eval_vars>>

\* A cycle completes: the counter is incremented, the timestamp is set.
LiveStamp ==
    /\ LET seq == IF scan_seq = Nil THEN 0 ELSE PyInt(scan_seq)
       IN /\ seq < MaxSeq
          /\ scan_seq' = NumStr(seq + 1)
    /\ last_update_ms' = NumStr(now)
    /\ UNCHANGED <<cards, candidates, feeder_vars, scan_vars, health_vars, eval_vars>>

----------------------------------------------------------------------------
(* The upstream document of /evaluate *)

\* A JSON value as resp.json() returns it.
JsonNull == [t |-> "null"]
JsonList(xs) == [t |-> "list", items |-> xs]
Absent == [t |-> "absent"]                  \* the key is not in the object
JsonObject(pairs) == [t |-> "object", pairs |-> pairs]

\* Python truthiness of a JSON value ("x or default").
Truthy(j) ==
    CASE j.t = "null" -> FALSE
      [] j.t = "absent" -> FALSE
      [] j.t = "list" -> j.items # <<>>
      [] j.t = "object" -> TRUE

\* dict.get exists on a dict only; on None or a list it raises AttributeError.
HasGet(j) == j.t = "object"

MintA == "MintA"
TokA == [address |-> MintA, symbol |-> "MEME"]
TokB == [address |-> "MintB", symbol |-> "OTHR"]
TokSol == [address |-> "So11111111111111111111111111111111111111112", symbol |-> "SOL"]
TokSolLower == [address |-> TokSol.address, symbol |-> "sol"]

\* str.upper() on the symbols above.
Upper(sym) == IF sym = "sol" THEN "SOL" ELSE sym

DexUrl == "https://dexscreener.com/solana/PAIRADDR"
\* dex_url.rsplit("/", 1)[-1] if "/" in dex_url else dex_url
RSplitTail(url) == IF url = DexUrl THEN "PAIRADDR" ELSE url

Sides == {<<TokA, TokSol>>, <<TokSol, TokA>>, <<TokSolLower, TokA>>, <<TokB, TokA>>}
Liquidities == {-1, 0, 5, 10, 50000, 2000000000}   \* -1: liquidity.usd is absent
Volumes == {0, 200000}
Trades == {<<0, 0>>, <<30, 10>>, <<0, 60>>}         \* txns.h1 buys, sells
Chains == {"solana", "ethereum"}

PairRecords ==
    {[chainId |-> c, baseToken |-> sd[1], quoteToken |-> sd[2],
      liquidity |-> l, volume |-> v, buys |-> t[1], sells |-> t[2], url |-> DexUrl] :
        c \in Chains, sd \in Sides, l \in Liquidities, v \in Volumes, t \in Trades}

RECURSIVE SeqsUpTo(_, _)
SeqsUpTo(S, n) ==
    IF n = 0 THEN {<<>>}
    ELSE LET shorter == SeqsUpTo(S, n - 1)
         IN shorter \cup {Append(q, x) : q \in {r \in shorter : Len(r) = n - 1}, x \in S}

\* What the GET of the upstream gives: an exception of requests (network
\* error, timeout), a body that is not JSON, or a JSON document.
UpstreamOutcomes ==
    {[kind |-> "error", data |-> JsonNull], [kind |-> "not_json", data |-> JsonNull]}
    \cup {[kind |-> "json", data |-> d] :
            d \in {JsonNull, JsonList(<<>>), JsonList(<<1>>), JsonObject(Absent),
                   JsonObject(JsonNull), JsonObject(JsonObject(Absent))}}
    \cup {[kind |-> "json", data |-> JsonObject(JsonList(ps))] :
            ps \in SeqsUpTo(PairRecords, MaxPairs)}

EvalRequests == {[kind |-> "req", mint |-> MintA, upstream |-> u] : u \in UpstreamOutcomes}

\* float((p.get("liquidity") or {}).get("usd") or 0)
LiqUsd(p) == IF p.liquidity = -1 THEN 0 ELSE p.liquidity

----------------------------------------------------------------------------
(* The score: src/loop.py lines 85-96, src/app.py lines 199-202 *)

\* 10^6 * math.log10(x), rounded, for the amounts of Liquidities and Volumes.
Log10Micro(x) ==
    CASE x = 1 -> 0
      [] x = 5 -> 698970
      [] x = 10 -> 1000000
      [] x = 50000 -> 4698970
      [] x = 200000 -> 5301030
      [] x = 2000000000 -> 9301030

Max(a, b) == IF a >= b THEN a ELSE b
Min(a, b) == IF a <= b THEN a ELSE b

\* round(): to the nearest integer, a tie to the even one.
PyRound(micro) ==
    LET q == micro \div 1000000
        r == micro % 1000000
    IN IF 2 * r > 1000000 THEN q + 1
       ELSE IF 2 * r < 1000000 THEN q
       ELSE IF q % 2 = 0 THEN q ELSE q + 1

\* s_liq + s_vol + s_net, in millionths.
RawMicro(liq, vol, buys, sells) ==
    40 * Log10Micro(Max(liq, 1)) + 40 * Log10Micro(Max(vol, 1))
    + (Max(Min(buys - sells, 50), -50) * 20 * 1000000) \div 50

ClampHi == 100
AppClampHi == 500

\* loop.py: max(1, min(100, int(round(raw))))
loop_score_pool(liq, vol, buys, sells) ==
    Max(1, Min(ClampHi, PyRound(RawMicro(liq, vol, buys, sells))))

\* app.py: max(1, min(500, round(s_liq + s_vol + s_net)))
app_composite(liq, vol, buys, sells) ==
    Max(1, Min(AppClampHi, PyRound(RawMicro(liq, vol, buys, sells))))

----------------------------------------------------------------------------
(* /evaluate of src/loop.py *)

NotFound == [status |-> 404, picked |-> 0,
             body |-> [detail |-> "mint not found or not tradeable on solana"]]
\* An exception no handler catches: FastAPI answers 500.
ServerError == [status |-> 500, picked |-> 0, body |-> [detail |-> "Internal Server Error"]]

Exits == [tp_levels_pct |-> <<50, 100, 200>>, tp_allocs_pct |-> <<25, 50, 25>>,
          invalidation_drop_pct |-> 25]

\* Lines 44-53: the meme coin is made the base; if SOL is base and the quote
\* is not SOL, the two sides are swapped.
loop_normalize(p) ==
    IF Upper(p.baseToken.symbol) = "SOL" /\ Upper(p.quoteToken.symbol) # "SOL"
    THEN [base |-> p.quoteToken, quote |-> p.baseToken]
    ELSE [base |-> p.baseToken, quote |-> p.quoteToken]

NoBest == [kind |-> "none", idx |-> 0, liq_usd |-> 0, symbol |-> "", dex_url |-> ""]

\* Lines 39-73: one iteration of the loop over pairs; best.liq_usd is best_liq.
loop_pick_iter(mint, p, i, best) ==
    IF p.chainId # "solana" THEN best
    ELSE IF loop_normalize(p).base.address # mint THEN best
    ELSE IF LiqUsd(p) > best.liq_usd
         THEN [kind |-> "pool", idx |-> i, liq_usd |-> LiqUsd(p),
               symbol |-> loop_normalize(p).base.symbol, dex_url |-> p.url]
         ELSE best

RECURSIVE loop_pick_loop(_, _, _, _)
loop_pick_loop(mint, pairs, i, best) ==
    IF i > Len(pairs) THEN best
    ELSE loop_pick_loop(mint, pairs, i + 1, loop_pick_iter(mint, pairs[i], i, best))

\* Lines 26-75.  kind "raise": an exception leaves the function.
loop_pick_best_pool_for_mint(mint, up) ==
    IF up.kind # "json" THEN NoBest                       \* except Exception
    ELSE IF ~HasGet(up.data) THEN [NoBest EXCEPT !.kind = "raise"]
    ELSE IF ~Truthy(up.data.pairs) THEN NoBest            \* (... or []), if not pairs
    ELSE IF up.data.pairs.t # "list" THEN [NoBest EXCEPT !.kind = "raise"]
    ELSE loop_pick_loop(mint, up.data.pairs.items, 1, NoBest)

\* Lines 100-140
loop_build_execution_blocks(liquidity_usd) ==
    [axiom |-> [router |-> "Axiom", supported |-> liquidity_usd > 0,
                slippage_pct |-> "5.0", position_pct |-> "0.0075"],
     jupiter |-> [router |-> "Jupiter", supported |-> liquidity_usd >= 2000,
                  slippage_pct |-> "1.2", position_pct |-> "0.0075"]]

\* Lines 202-247
loop_evaluate(mint, up, clock) ==
    LET pool_obj == loop_pick_best_pool_for_mint(mint, up)
        p == up.data.pairs.items[pool_obj.idx]
    IN IF pool_obj.kind = "raise" THEN ServerError
       ELSE IF pool_obj.kind = "none" THEN NotFound
       ELSE [status |-> 200, picked |-> pool_obj.idx,
             body |-> [token |-> [symbol |-> pool_obj.symbol, mint |-> mint, decimals |-> 9],
                       score |-> [total |-> [num |-> loop_score_pool(LiqUsd(p), p.volume,
                                                                     p.buys, p.sells),
                                             type |-> "int"]],
                       market |-> [liquidity_usd |-> pool_obj.liq_usd,
                                   dex_url |-> pool_obj.dex_url,
                                   pair_hint |-> RSplitTail(pool_obj.dex_url),
                                   risk |-> IF pool_obj.liq_usd < 1000
                                            THEN <<"THIN_POOL_HIGH_RUG_RISK">> ELSE <<>>,
                                   asof |-> clock],
                       execution |-> loop_build_execution_blocks(pool_obj.liq_usd),
                       exits |-> Exits]]

----------------------------------------------------------------------------
(* /evaluate of src/app.py *)

\* Lines 164-211: one iteration of the loop over pairs.  st is the pair of
\* the locals good (here the indexes of the pairs kept) and seen.
app_fetch_iter(p, i, st) ==
    IF p.chainId # "solana" THEN st
    ELSE IF p.baseToken.address \in st.seen THEN st
    ELSE IF LiqUsd(p) <= 0
         THEN [st EXCEPT !.seen = @ \cup {p.baseToken.address}]
         ELSE [good |-> Append(st.good, i), seen |-> st.seen \cup {p.baseToken.address}]

RECURSIVE app_fetch_loop(_, _, _)
app_fetch_loop(pairs, i, st) ==
    IF i > Len(pairs) THEN st
    ELSE app_fetch_loop(pairs, i + 1, app_fetch_iter(pairs[i], i, st))

app_score(p) == app_composite(LiqUsd(p), p.volume, p.buys, p.sells)

\* good.sort(key=_score, reverse=True); good[0]: the sort is stable, so the
\* first of the pairs with the highest score.
app_sort_first(pairs, good) ==
    LET k == CHOOSE k \in 1..Len(good) :
                 /\ \A j \in 1..Len(good) : app_score(pairs[good[j]]) <= app_score(pairs[good[k]])
                 /\ \A j \in 1..(k - 1) : app_score(pairs[good[j]]) < app_score(pairs[good[k]])
    IN good[k]

\* Lines 154-218.  The result is the index of the pair returned, 0 for None,
\* -1 when an exception leaves the function.
app_fetch_best_pair_for_mint(mint, up) ==
    IF up.kind # "json" THEN 0                            \* except Exception
    ELSE IF ~Truthy(up.data) THEN 0                       \* (... or {}), no pairs
    ELSE IF ~HasGet(up.data) THEN -1
    ELSE IF ~Truthy(up.data.pairs) THEN 0
    ELSE IF up.data.pairs.t # "list" THEN -1
    ELSE LET good == app_fetch_loop(up.data.pairs.items, 1, [good |-> <<>>, seen |-> {}]).good
         IN IF good = <<>> THEN 0 ELSE app_sort_first(up.data.pairs.items, good)

\* Lines 230-276
app_evaluate(mint, up, clock) ==
    LET pair == app_fetch_best_pair_for_mint(mint, up)
        p == up.data.pairs.items[pair]
    IN IF pair = -1 THEN ServerError
       ELSE IF pair = 0 THEN NotFound
       ELSE [status |-> 200, picked |-> pair,
             body |-> [token |-> [symbol |-> p.baseToken.symbol, mint |-> mint, decimals |-> 9],
                       score |-> [total |-> [num |-> app_score(p), type |-> "float"]],
                       market |-> [liquidity_usd |-> LiqUsd(p),
                                   pair_hint |-> p.quoteToken.symbol \o " / " \o p.baseToken.symbol,
                                   dex_url |-> p.url,
                                   risk |-> IF LiqUsd(p) < 1000
                                            THEN <<"THIN_POOL_HIGH_RUG_RISK">> ELSE <<>>,
                                   asof |-> clock],
                       execution |-> [axiom |-> [supported |-> LiqUsd(p) > 0,
                                                 slippage_pct |-> "5.0"],
                                      jupiter |-> [supported |-> LiqUsd(p) >= 2000,
                                                   slippage_pct |-> "1.2"]],
                       exits |-> Exits]]

\* One /evaluate request, served by either file.
Evaluate ==
    /\ eval_req.kind = "req"
    /\ eval_resp.kind = "none"
    /\ \E v \in Variants :
         LET r == IF v = "app" THEN app_evaluate(eval_req.mint, eval_req.upstream, now)
                  ELSE loop_evaluate(eval_req.mint, eval_req.upstream, now)
         IN eval_resp' = [kind |-> "resp", variant |-> v, status |-> r.status,
                          picked |-> r.picked, body |-> r.body]
    /\ UNCHANGED <<store_vars, feeder_vars, scan_vars, health_vars, eval_req>>

----------------------------------------------------------------------------
(* Specifications *)

NoReq == [kind |-> "none"]
NoResp == [kind |-> "none"]

Init ==
    /\ cards = EmptyMap
    /\ candidates = EmptyMap
    /\ scan_seq = Nil
    /\ last_update_ms = Nil
    /\ now = T0
    /\ feeder_pc = "top"
    /\ feeder_s = 0
    /\ feeder_mint = DummyMint(0)
    /\ cycles = 0
    /\ first_cycle = [cards |-> EmptyMap, candidates |-> EmptyMap]
    /\ scan_pc = "idle"
    /\ scan_variant = "none"
    /\ scan_limit = 0
    /\ scan_z = EmptyMap
    /\ scan_mints = <<>>
    /\ scan_i = 1
    /\ scan_items = <<>>
    /\ scan_reads = <<>>
    /\ health_pc = "idle"
    /\ health_resp = NoHealth
    /\ eval_req = NoReq
    /\ eval_resp = NoResp

\* The query service over a store that other processes write.
Next ==
    \/ LiveSetCard
    \/ LiveZadd
    \/ CardVanish
    \/ LiveStamp
    \/ ScanStart
    \/ ScanIter
    \/ ScanLoopEnd
    \/ ScanReturn
    \/ Health
    \/ HealthReturn

Spec == Init /\ [][Next]_vars

\* app.py's feeder as the only writer, from an empty store.
NextFeeder ==
    \/ FeederSetCard
    \/ FeederZadd
    \/ FeederSleep
    \/ ScanStart
    \/ ScanIter
    \/ ScanLoopEnd
    \/ ScanReturn
    \/ Health
    \/ HealthReturn

SpecFeeder == Init /\ [][NextFeeder]_vars

\* /evaluate, which uses neither the store nor the feeder, on every upstream
\* outcome of UpstreamOutcomes.
InitEval ==
    /\ cards = EmptyMap
    /\ candidates = EmptyMap
    /\ scan_seq = Nil
    /\ last_update_ms = Nil
    /\ now = T0
    /\ feeder_pc = "top"
    /\ feeder_s = 0
    /\ feeder_mint = DummyMint(0)
    /\ cycles = 0
    /\ first_cycle = [cards |-> EmptyMap, candidates |-> EmptyMap]
    /\ scan_pc = "idle"
    /\ scan_variant = "none"
    /\ scan_limit = 0
    /\ scan_z = EmptyMap
    /\ scan_mints = <<>>
    /\ scan_i = 1
    /\ scan_items = <<>>
    /\ scan_reads = <<>>
    /\ health_pc = "idle"
    /\ health_resp = NoHealth
    /\ eval_req \in EvalRequests
    /\ eval_resp = NoResp

NextEval == Evaluate

SpecEval == InitEval /\ [][NextEval]_vars

----------------------------------------------------------------------------
(* Claims about /scan, /health and the feeder *)

ItemMints == {scan_items[i].token.mint : i \in 1..Len(scan_items)}

\* C1: for every limit N, 0 and negative values included, and every content
\* of the store the feeder can produce, /scan returns at most N entries (none
\* when N <= 0) and no entry of a mint that starts with "DUMMY".
C1_ScanAtMostNAndNoSynthetic ==
    scan_pc = "return" =>
        /\ Len(scan_items) <= (IF scan_limit < 0 THEN 0 ELSE scan_limit)
        /\ \A m \in ItemMints : ~StartsWithDummy(m)

\* C6: a /health call made while the keys scan_seq and last_update_ms are
\* both absent returns scan_seq = 0 and last_update_ms = 0.  (That /health
\* leaves the store alone is plain in Health, which writes no store variable.)
C6_HealthNeverRun ==
    (health_pc = "return" /\ health_resp.never_run /\ health_resp.status = 200) =>
        /\ "scan_seq" \in DOMAIN health_resp.body
        /\ "last_update_ms" \in DOMAIN health_resp.body
        /\ health_resp.body.scan_seq = 0
        /\ health_resp.body.last_update_ms = 0

\* C7: a second feed cycle leaves the store as the first one left it: the
\* same card under the same key, the same rank entry.
C7_FeedCycleIdempotent ==
    (cycles = 2 /\ feeder_pc = "sleep") =>
        /\ cards = first_cycle.cards
        /\ candidates = first_cycle.candidates

\* C9: with the feeder as the only writer, from an empty store and under
\* every interleaving with /scan requests, every mint of the ranking set has
\* a stored card, and no r.get of a scan finds the card of a ranked mint
\* missing.
C9_RankedMintHasCard ==
    /\ \A m \in DOMAIN candidates : m \in DOMAIN cards
    /\ \A k \in 1..Len(scan_reads) :
         scan_reads[k].read => scan_reads[k].raw # Nil

\* A scan has read a card while the feeder is between its two writes: the
\* card of the iteration is stored, its rank entry is not yet.
C9_Witness ==
    /\ feeder_pc = "zadd"
    /\ feeder_mint \in DOMAIN cards
    /\ feeder_mint \notin DOMAIN candidates
    /\ scan_pc \in {"loop", "return"}
    /\ Len(scan_reads) >= 1

Unusable(raw) == IF IsFalsy(raw) THEN TRUE ELSE ~JsonParses(raw)

----------------------------------------------------------------------------
(* Claims about /evaluate *)

Answered == eval_resp.kind = "resp"
Upstream == eval_req.upstream
\* The upstream answered with a JSON object whose "pairs" is a list.
HasPairsList ==
    /\ Upstream.kind = "json"
    /\ Upstream.data.t = "object"
    /\ Upstream.data.pairs.t = "list"
Pairs == IF HasPairsList THEN Upstream.data.pairs.items ELSE <<>>

\* The asset of interest of a pair record: the quote token when the base
\* symbol is SOL and the quote symbol is not, else the base token.
AssetOf(p) ==
    IF Upper(p.baseToken.symbol) = "SOL" /\ Upper(p.quoteToken.symbol) # "SOL"
    THEN p.quoteToken ELSE p.baseToken

\* A qualifying Solana pair of the mint.
Qualifies(p, mint) ==
    /\ p.chainId = "solana"
    /\ AssetOf(p).address = mint
    /\ LiqUsd(p) > 0
Qualifying == {k \in 1..Len(Pairs) : Qualifies(Pairs[k], eval_req.mint)}

\* C2: when the upstream document holds no qualifying Solana pair of the
\* mint, /evaluate answers 404 and no card.
C2_NoQualifyingPairNotFound ==
    (Answered /\ Upstream.kind = "json" /\ Upstream.data.t = "object"
        /\ Upstream.data.pairs.t \in {"absent", "null", "list"} /\ Qualifying = {}) =>
        eval_resp.status = 404

\* The upstream outcomes that are failures of the fetch: an exception of the
\* request, a body that is not JSON, a JSON body that is no object with a
\* list of pairs.
FetchFailed == ~HasPairsList

\* C3: on every failed fetch /evaluate answers 404, never an unhandled
\* internal failure.
C3_FetchFailureNotFound ==
    (Answered /\ FetchFailed) => eval_resp.status = 404

\* The pair records of the document with SOL as base symbol and another
\* quote symbol.
SolBased == {k \in 1..Len(Pairs) : Pairs[k].baseToken.symbol = "SOL"
                                    /\ Pairs[k].quoteToken.symbol # "SOL"}

\* C4: for a pair record with base symbol SOL and another quote symbol the
\* quote token is the asset of interest: when the record is the only one of
\* the document, the mint is matched against the quote address (a card for
\* a record on solana with liquidity whose quote is the mint, 404 otherwise)
\* and the card reports the quote symbol.
C4_SolBaseSwapped ==
    (Answered /\ HasPairsList /\ Len(Pairs) = 1 /\ SolBased = {1}) =>
        /\ eval_resp.status = (IF Qualifying = {1} THEN 200 ELSE 404)
        /\ eval_resp.status = 200 =>
             eval_resp.body.token.symbol = Pairs[1].quoteToken.symbol

\* C5: the score.total of every card is an integer of 1..100; the score of
\* liquidity 0, volume 0, no trades is 1; the card of a pair with liquidity
\* 50000, volume 200000, 30 buys and 10 sells has score.total 100.
C5_ScoreIntegerInClampRange ==
    /\ loop_score_pool(0, 0, 0, 0) = 1
    /\ app_composite(0, 0, 0, 0) = 1
    /\ (Answered /\ eval_resp.status = 200) =>
         LET total == eval_resp.body.score.total
             p == Pairs[eval_resp.picked]
         IN /\ total.type = "int"
            /\ total.num \in 1..ClampHi
            /\ (LiqUsd(p) = 50000 /\ p.volume = 200000 /\ p.buys = 30 /\ p.sells = 10)
                 => total.num = ClampHi

\* The Scorer of the file that served the request.
ScoreOf(p) ==
    IF eval_resp.variant = "app" THEN app_score(p)
    ELSE loop_score_pool(LiqUsd(p), p.volume, p.buys, p.sells)

\* C8: when the document holds a qualifying pair, /evaluate answers a card,
\* built from a qualifying pair whose score no qualifying pair exceeds.
C8_BestQualifyingPairByScore ==
    (Answered /\ HasPairsList /\ Qualifying # {}) =>
        /\ eval_resp.status = 200
        /\ eval_resp.picked \in Qualifying
        /\ \A k \in Qualifying : ScoreOf(Pairs[k]) <= ScoreOf(Pairs[eval_resp.picked])

====
